---- MODULE Spec2Model ----
(***************************************************************************)
(* Model of the authentication backend (server/index.ts, server/db/*.ts):  *)
(* the login and register request handlers, the credential codec and       *)
(* verifier, the status gate, the schema-adaptive insert loop and the      *)
(* connection pool they run against.                                       *)
(*                                                                         *)
(* Strings are sequences of one-character strings, so that trimming,       *)
(* lower-casing, splitting and hex coding are computed, not assumed.       *)
(* A JavaScript value that may be a non-string (a missing body field, a    *)
(* NULL column) is a record [type, str].                                   *)
(***************************************************************************)
EXTENDS Integers, Sequences, FiniteSets, TLC

(***************************************************************************)
(* Bounds of the model.                                                    *)
(***************************************************************************)
MaxRequests == 2

(***************************************************************************)
(* JavaScript values and strings.                                          *)
(***************************************************************************)
Undefined == [type |-> "undefined", str |-> <<>>]
JsStr(s) == [type |-> "string", str |-> s]

UpperChars ==
  <<"A","B","C","D","E","F","G","H","I","J","K","L","M",
    "N","O","P","Q","R","S","T","U","V","W","X","Y","Z">>
LowerChars ==
  <<"a","b","c","d","e","f","g","h","i","j","k","l","m",
    "n","o","p","q","r","s","t","u","v","w","x","y","z">>
WhiteSpace == {" ", "\t", "\n", "\r"}

\* String.prototype.toLowerCase, one character
LowerOf == [c \in {UpperChars[i] : i \in 1..26} |->
              LowerChars[CHOOSE i \in 1..26 : UpperChars[i] = c]]
ToLowerChar(c) == IF c \in DOMAIN LowerOf THEN LowerOf[c] ELSE c

\* String.prototype.toLowerCase
ToLowerCase(s) == [i \in 1..Len(s) |-> ToLowerChar(s[i])]

\* String.prototype.trim
Trim(s) ==
  LET keep == {i \in 1..Len(s) : s[i] \notin WhiteSpace}
  IN  IF keep = {} THEN <<>>
      ELSE LET lo == CHOOSE i \in keep : \A j \in keep : i <= j
               hi == CHOOSE i \in keep : \A j \in keep : j <= i
           IN  SubSeq(s, lo, hi)

\* String.prototype.includes for a one-character needle
IncludesChar(s, c) == \E i \in 1..Len(s) : s[i] = c

\* toCleanString: the trimmed string, "" for anything that is not a string
toCleanString(value) ==
  IF value.type = "string" THEN Trim(value.str) ELSE <<>>

StrActivo == <<"a","c","t","i","v","o">>
StrActive == <<"a","c","t","i","v","e">>
StrEnabled == <<"e","n","a","b","l","e","d">>

\* (variant) a status compared without lower-casing it
isActiveStatus_CaseSensitive(value) ==
  LET v == toCleanString(value)
  IN  IF v = <<>> THEN TRUE
      ELSE v = StrActivo \/ v = StrActive \/ v = StrEnabled

\* isActiveStatus
isActiveStatus(value) ==
  LET v == ToLowerCase(toCleanString(value))
  IN  IF v = <<>> THEN TRUE
      ELSE v = StrActivo \/ v = StrActive \/ v = StrEnabled

(***************************************************************************)
(* Bytes, UTF-8 and hex (Buffer.from / Buffer.toString).                   *)
(***************************************************************************)
\* the printable ASCII characters, code 32 first (the double quote, the
\* backslash and the grave accent are written by name)
PrintableChars ==
  <<
    " ","!","dquote","#","$","%","&","'","(",")","*","+",
    ",","-",".","/","0","1","2","3","4","5","6","7",
    "8","9",":",";","<","=",">","?","@","A","B","C",
    "D","E","F","G","H","I","J","K","L","M","N","O",
    "P","Q","R","S","T","U","V","W","X","Y","Z","[",
    "bslash","]","^","_","grave","a","b","c","d","e","f","g",
    "h","i","j","k","l","m","n","o","p","q","r","s",
    "t","u","v","w","x","y","z","{","|","}","~"
  >>
ReplacementChar == "U+FFFD"
\* UTF-16 code units that are no character on their own: a high and a low
\* surrogate without their other half
LoneSurrogates == {"U+D800", "U+DC00"}

\* the UTF-8 code of a character of the model's alphabet
CodeOf == [c \in {PrintableChars[i] : i \in 1..95} |->
             31 + (CHOOSE i \in 1..95 : PrintableChars[i] = c)]

\* the UTF-8 bytes of one code unit: one byte for ASCII, EF BF BD for U+FFFD
\* and, as Buffer.from encodes it, for a lone surrogate
CharCode(c) ==
  IF c \in DOMAIN CodeOf THEN <<CodeOf[c]>>
  ELSE IF c = "\t" THEN <<9>>
  ELSE IF c = "\n" THEN <<10>>
  ELSE IF c = "\r" THEN <<13>>
  ELSE <<239, 191, 189>>

RECURSIVE Utf8BytesFrom(_, _)
Utf8BytesFrom(s, i) ==
  IF i > Len(s) THEN <<>> ELSE CharCode(s[i]) \o Utf8BytesFrom(s, i + 1)

\* Buffer.from(s, "utf8") / Buffer.from(s)
Utf8Bytes(s) ==
  IF \A i \in 1..Len(s) : s[i] \in DOMAIN CodeOf
    THEN [i \in 1..Len(s) |-> CodeOf[s[i]]]
    ELSE Utf8BytesFrom(s, 1)

RECURSIVE Utf8StringFrom(_, _)
Utf8StringFrom(bytes, i) ==
  IF i > Len(bytes) THEN <<>>
  ELSE IF bytes[i] >= 32 /\ bytes[i] <= 126
    THEN <<PrintableChars[bytes[i] - 31]>> \o Utf8StringFrom(bytes, i + 1)
  ELSE IF bytes[i] = 9 THEN <<"\t">> \o Utf8StringFrom(bytes, i + 1)
  ELSE IF bytes[i] = 10 THEN <<"\n">> \o Utf8StringFrom(bytes, i + 1)
  ELSE IF bytes[i] = 13 THEN <<"\r">> \o Utf8StringFrom(bytes, i + 1)
  ELSE IF i + 2 <= Len(bytes) /\ SubSeq(bytes, i, i + 2) = <<239, 191, 189>>
    THEN <<ReplacementChar>> \o Utf8StringFrom(bytes, i + 3)
  ELSE <<ReplacementChar>> \o Utf8StringFrom(bytes, i + 1)

\* buffer.toString("utf8"): bytes that are no character of the alphabet
\* become U+FFFD
Utf8String(bytes) ==
  IF \A i \in 1..Len(bytes) : bytes[i] >= 32 /\ bytes[i] <= 126
    THEN [i \in 1..Len(bytes) |-> PrintableChars[bytes[i] - 31]]
    ELSE Utf8StringFrom(bytes, 1)

HexDigits == <<"0","1","2","3","4","5","6","7","8","9","a","b","c","d","e","f">>
HexUpper == <<"0","1","2","3","4","5","6","7","8","9","A","B","C","D","E","F">>

HexOf == [c \in {HexDigits[i] : i \in 1..16} \cup {HexUpper[i] : i \in 1..16} |->
            (CHOOSE i \in 1..16 : HexDigits[i] = c \/ HexUpper[i] = c) - 1]
IsHexChar(c) == c \in DOMAIN HexOf
HexVal(c) == HexOf[c]

\* buffer.toString("hex")
HexEncode(bytes) ==
  [i \in 1..(2 * Len(bytes)) |->
     LET b == bytes[(i + 1) \div 2]
     IN  IF i % 2 = 1 THEN HexDigits[(b \div 16) + 1] ELSE HexDigits[(b % 16) + 1]]

\* Buffer.from(s, "hex"): decodes pairs of hex digits and stops, without an
\* error, at the first pair that is not two hex digits; an odd last digit is dropped
HexDecode(s) ==
  LET pairs == Len(s) \div 2
      bad == {k \in 1..pairs : ~(IsHexChar(s[2 * k - 1]) /\ IsHexChar(s[2 * k]))}
      n == IF bad = {} THEN pairs
           ELSE (CHOOSE k \in bad : \A j \in bad : k <= j) - 1
  IN  [k \in 1..n |-> 16 * HexVal(s[2 * k - 1]) + HexVal(s[2 * k])]

Base64Chars ==
  <<"A","B","C","D","E","F","G","H","I","J","K","L","M","N","O","P",
    "Q","R","S","T","U","V","W","X","Y","Z","a","b","c","d","e","f",
    "g","h","i","j","k","l","m","n","o","p","q","r","s","t","u","v",
    "w","x","y","z","0","1","2","3","4","5","6","7","8","9","+","/">>
Base64Of == [c \in {Base64Chars[i] : i \in 1..64} |->
               (CHOOSE i \in 1..64 : Base64Chars[i] = c) - 1]
IsBase64Char(c) == c \in DOMAIN Base64Of
Base64Val(c) == Base64Of[c]

\* Buffer.from(s, "base64") for s made of base64 characters and "=":
\* decoding stops at the first "=", 4 characters give 3 bytes and the bits
\* of an incomplete last byte are dropped
Base64Decode(s) ==
  LET pads == {i \in 1..Len(s) : s[i] = "="}
      data == IF pads = {} THEN s
              ELSE SubSeq(s, 1, (CHOOSE i \in pads : \A j \in pads : i <= j) - 1)
      n == (6 * Len(data)) \div 8
      v(q) == Base64Val(data[q + 1])
  IN  [j \in 1..n |->
         LET bit == 8 * (j - 1)
             q == bit \div 6
             o == bit % 6
         IN  IF o = 0 THEN 4 * v(q) + (v(q + 1) \div 16)
             ELSE IF o = 2 THEN 16 * (v(q) % 16) + (v(q + 1) \div 4)
             ELSE 64 * (v(q) % 4) + v(q + 1)]

(***************************************************************************)
(* The cipher codec.  AES-256-GCM itself is library code: it is modelled   *)
(* as an authenticated stream cipher on bytes.  The ciphertext has the     *)
(* length of the plaintext, the 16-byte tag is a function of key, IV and   *)
(* ciphertext every byte of which changes when one byte of them changes,   *)
(* and a shortened tag is compared with the same-length prefix of the      *)
(* full one, as the library does.                                          *)
(***************************************************************************)
Null == [type |-> "null", str |-> <<>>]
NoKey == <<>>
KeyLen == 32
IvLen == 12
TagLen == 16
ValidTagLengths == {4, 8, 12, 13, 14, 15, 16}

RECURSIVE WeightedSumTo(_, _)
WeightedSumTo(bytes, n) ==
  IF n = 0 THEN 0 ELSE (2 * n - 1) * bytes[n] + WeightedSumTo(bytes, n - 1)

\* a sum of the bytes in which every byte has an odd weight
WeightedSum(bytes) == WeightedSumTo(bytes, Len(bytes))

\* cipher.update(plain) + cipher.final()
GcmEncrypt(key, iv, plain) ==
  LET k0 == WeightedSum(key) + WeightedSum(iv)
  IN  [i \in 1..Len(plain) |-> (plain[i] + k0 + 17 * i) % 256]

\* decipher.update(data), before the tag is verified
GcmDecrypt(key, iv, data) ==
  LET k0 == (WeightedSum(key) + WeightedSum(iv)) % 256
  IN  [i \in 1..Len(data) |-> (data[i] + 256 * (i + 1) - k0 - 17 * i) % 256]

\* cipher.getAuthTag()
GcmTag(key, iv, data) ==
  LET h == 3 * WeightedSum(key) + 5 * WeightedSum(iv) + WeightedSum(data)
             + 101 * Len(data)
  IN  [j \in 1..TagLen |-> (h + 7 * j) % 256]

\* (variant) a base64 secret is used whatever its decoded length
getAesKey_AnyBase64(raw) ==
  IF raw.type # "string" \/ raw.str = <<>> THEN NoKey
  ELSE IF Len(raw.str) = 64 /\ \A i \in 1..64 : IsHexChar(raw.str[i])
    THEN HexDecode(raw.str)
  ELSE IF \A i \in 1..Len(raw.str) : IsBase64Char(raw.str[i]) \/ raw.str[i] = "="
    THEN Base64Decode(raw.str)
  ELSE IF Len(Utf8Bytes(raw.str)) = KeyLen THEN Utf8Bytes(raw.str)
  ELSE NoKey

\* getAesKey: the 32-byte key of the configured secret, NoKey for null
getAesKey(raw) ==
  IF raw.type # "string" \/ raw.str = <<>> THEN NoKey
  ELSE IF Len(raw.str) = 64 /\ \A i \in 1..64 : IsHexChar(raw.str[i])
    THEN HexDecode(raw.str)
  ELSE IF (\A i \in 1..Len(raw.str) : IsBase64Char(raw.str[i]) \/ raw.str[i] = "=")
          /\ Len(Base64Decode(raw.str)) = KeyLen
    THEN Base64Decode(raw.str)
  ELSE IF Len(Utf8Bytes(raw.str)) = KeyLen THEN Utf8Bytes(raw.str)
  ELSE NoKey

\* crypto.randomBytes(12), from the seed that stands for the random source
randomBytes(seed) == [i \in 1..IvLen |-> (seed + 29 * i) % 256]

ErrPasswordKey == [code |-> "", message |-> <<"PASSWORD_KEY no configurado o invalido.">>]

\* (variant) an encryption that does not check the key it got
encryptPassword_Unkeyed(plain, raw, seed) ==
  LET key == getAesKey(raw)
      iv == randomBytes(seed)
      encrypted == GcmEncrypt(key, iv, Utf8Bytes(plain))
      tag == GcmTag(key, iv, encrypted)
  IN  [threw |-> FALSE, error |-> ErrPasswordKey,
       value |-> HexEncode(iv) \o <<":">> \o HexEncode(tag)
                   \o <<":">> \o HexEncode(encrypted)]

\* (variant) an envelope with the tag last: iv:cipher:tag
encryptPassword_TagLast(plain, raw, seed) ==
  LET key == getAesKey(raw)
      iv == randomBytes(seed)
      encrypted == GcmEncrypt(key, iv, Utf8Bytes(plain))
      tag == GcmTag(key, iv, encrypted)
  IN  IF key = NoKey
        THEN [threw |-> TRUE, error |-> ErrPasswordKey, value |-> <<>>]
        ELSE [threw |-> FALSE, error |-> ErrPasswordKey,
              value |-> HexEncode(iv) \o <<":">> \o HexEncode(encrypted)
                          \o <<":">> \o HexEncode(tag)]

\* encryptPassword: [threw, error, value]; iv:tag:cipher in hex on success
encryptPassword(plain, raw, seed) ==
  LET key == getAesKey(raw)
      iv == randomBytes(seed)
      encrypted == GcmEncrypt(key, iv, Utf8Bytes(plain))
      tag == GcmTag(key, iv, encrypted)
  IN  IF key = NoKey
        THEN [threw |-> TRUE, error |-> ErrPasswordKey, value |-> <<>>]
        ELSE [threw |-> FALSE, error |-> ErrPasswordKey,
              value |-> HexEncode(iv) \o <<":">> \o HexEncode(tag)
                          \o <<":">> \o HexEncode(encrypted)]

\* String.prototype.split(":")
RECURSIVE SplitColon(_)
SplitColon(s) ==
  LET colons == {i \in 1..Len(s) : s[i] = ":"}
  IN  IF colons = {} THEN <<s>>
      ELSE LET k == CHOOSE i \in colons : \A j \in colons : i <= j
           IN  <<SubSeq(s, 1, k - 1)>> \o SplitColon(SubSeq(s, k + 1, Len(s)))

\* decryptPassword: the plaintext as a string value, or Null
decryptPassword(payload, raw) ==
  LET parts == SplitColon(payload)
  IN  IF Len(parts) # 3 THEN Null
      ELSE IF parts[1] = <<>> \/ parts[2] = <<>> \/ parts[3] = <<>> THEN Null
      ELSE LET key == getAesKey(raw)
               iv == HexDecode(parts[1])
               tag == HexDecode(parts[2])
               data == HexDecode(parts[3])
           IN  IF key = NoKey THEN Null
               \* createDecipheriv throws on an empty IV
               ELSE IF iv = <<>> THEN Null
               \* setAuthTag throws on a tag length GCM does not allow
               ELSE IF Len(tag) \notin ValidTagLengths THEN Null
               \* final() throws when the tag does not authenticate
               ELSE IF tag # SubSeq(GcmTag(key, iv, data), 1, Len(tag)) THEN Null
               ELSE JsStr(Utf8String(GcmDecrypt(key, iv, data)))

\* (variant) a comparison that stops at the length check
timingSafeEqualString_LengthOnly(a, b) == Len(Utf8Bytes(a)) = Len(Utf8Bytes(b))

\* timingSafeEqualString
timingSafeEqualString(a, b) ==
  LET aBuf == Utf8Bytes(a)
      bBuf == Utf8Bytes(b)
  IN  IF Len(aBuf) # Len(bBuf) THEN FALSE
      ELSE \A i \in 1..Len(aBuf) : aBuf[i] = bBuf[i]

\* verifyPassword
verifyPassword(plain, stored, raw) ==
  IF stored = <<>> THEN FALSE
  ELSE IF IncludesChar(stored, ":")
    THEN LET decrypted == decryptPassword(stored, raw)
         IN  IF decrypted = Null THEN FALSE
             ELSE timingSafeEqualString(plain, decrypted.str)
  ELSE timingSafeEqualString(plain, stored)

\* isBadFieldError: the driver's code, or the message text
isBadFieldError(error) ==
  error.code = "ER_BAD_FIELD_ERROR"
    \/ \E i \in 1..Len(error.message) : error.message[i] = "Unknown column"

(***************************************************************************)
(* The store: the tenants and users tables, the columns the users table    *)
(* happens to have, and the errors a statement can fail with.              *)
(***************************************************************************)
BaseColumns == {"id", "tenant_id", "email", "password_hash", "role"}
OptionalColumns == {"name", "phone", "country_code", "status", "last_login_at"}

\* the users schemas the model starts from: the full one, one without the
\* optional contact columns, one without a name, one without a status
Schemas ==
  { OptionalColumns,
    {"name", "status"},
    {"status", "last_login_at"},
    {"name", "phone", "country_code", "last_login_at"} }

ErrBadField(column) ==
  [code |-> "ER_BAD_FIELD_ERROR", message |-> <<"Unknown column", column>>]
ErrConnLost == [code |-> "ECONNRESET", message |-> <<"read ECONNRESET">>]
ErrPoolClosed == [code |-> "ECONNREFUSED", message |-> <<"connect ECONNREFUSED">>]
ErrDupEntry == [code |-> "ER_DUP_ENTRY", message |-> <<"Duplicate entry">>]
ErrNoInsert == [code |-> "", message |-> <<"No se pudo insertar el usuario.">>]
NoError == [code |-> "", message |-> <<>>]

\* what a statement can fail with whatever the schema is
StorageFaults == {ErrConnLost}

\* the pool's connectionLimit
connectionLimit == 5

T1 == <<"t", "1">>
T2 == <<"t", "2">>
T9 == <<"t", "9">>
EmailA == <<"a", "@", "x">>
EmailB == <<"b", "@", "x">>
EmailC == <<"c", "@", "x">>
Pw1 == <<"p", "w", "1">>
Pw2 == <<"q">>
StrSuspended == <<"s","u","s","p","e","n","d","e","d">>
RoleUser == <<"u","s","e","r">>
RoleAdmin == <<"a","d","m","i","n">>

\* a secret of 32 characters, one of them not base64: the raw UTF-8 key
Secret32 ==
  <<"k","e","y","-","0","1","2","3","4","5","6","7","8","9","a","b",
    "c","d","e","f","g","h","i","j","k","l","m","n","o","p","q","r">>

UserRow(id, tenant, name, email, phone, cc, hash, status, role) ==
  [id |-> id, tenant_id |-> tenant, name |-> name, email |-> email,
   phone |-> phone, country_code |-> cc, password_hash |-> hash,
   status |-> status, role |-> role, last_login_at |-> 0]

\* the rows present before the first request: a legacy plaintext credential,
\* an envelope under Secret32 on a suspended user, the same email in another
\* tenant, and a row whose tenant has no row
InitialUsers ==
  { UserRow(1, T1, JsStr(<<"A","n","a">>), EmailA, Undefined, Undefined,
            JsStr(Pw1), JsStr(<<"A","c","t","i","v","o">>), RoleAdmin),
    UserRow(2, T1, JsStr(<<"B","o">>), EmailB, Undefined, Undefined,
            JsStr(encryptPassword(Pw1, JsStr(Secret32), 7).value),
            JsStr(StrSuspended), RoleUser),
    UserRow(3, T2, JsStr(<<"A","l">>), EmailA, Undefined, Undefined,
            JsStr(encryptPassword(Pw1, JsStr(Secret32), 9).value),
            Undefined, RoleUser),
    UserRow(4, T9, JsStr(<<"C","y">>), EmailC, Undefined, Undefined,
            JsStr(Pw2), JsStr(StrActivo), RoleUser) }

\* the tenants table: t1 and t2 active, or t1 suspended
TenantsActive ==
  { [id |-> T1, status |-> JsStr(<<" ","A","C","T","I","V","E">>)],
    [id |-> T2, status |-> Undefined] }
TenantsSuspended ==
  { [id |-> T1, status |-> JsStr(StrSuspended)],
    [id |-> T2, status |-> JsStr(StrEnabled)] }

(***************************************************************************)
(* Requests.                                                               *)
(***************************************************************************)
Reqs == 1..MaxRequests

EmptyBody ==
  [tenant |-> Undefined, name |-> Undefined, email |-> Undefined,
   phone |-> Undefined, country_code |-> Undefined, password |-> Undefined]

LoginBody(t, e, p) ==
  [EmptyBody EXCEPT !.tenant = t, !.email = e, !.password = p]

\* the login requests the model sends: a legacy row, an envelope row, a
\* suspended user, no row, and bodies that do not validate
LoginBodies ==
  { LoginBody(JsStr(T1), JsStr(<<" ", "A", "@", "x">>), JsStr(<<"p", "w", "1", " ">>)),
    LoginBody(JsStr(T1), JsStr(EmailA), JsStr(Pw2)),
    LoginBody(JsStr(T1), JsStr(EmailB), JsStr(Pw1)),
    LoginBody(JsStr(T1), JsStr(EmailB), JsStr(Pw2)),
    LoginBody(JsStr(T1), JsStr(<<"C", "@", "x", " ">>), JsStr(Pw2)),
    LoginBody(JsStr(<<" ", "t", "2">>), JsStr(EmailA), JsStr(Pw1)),
    LoginBody(Undefined, JsStr(EmailA), JsStr(Pw1)),
    LoginBody(JsStr(T1), JsStr(EmailA), JsStr(<<" ">>)) }

RegisterBody(t, n, e, ph, p) ==
  [EmptyBody EXCEPT !.tenant = t, !.name = n, !.email = e, !.phone = ph,
                    !.password = p]

\* the register requests the model sends: a new user, a registered one, an
\* unknown tenant, and bodies that do not validate
RegisterBodies ==
  { RegisterBody(JsStr(T1), JsStr(<<"N">>), JsStr(<<"C", "@", "x", " ">>),
                 JsStr(<<"5">>), JsStr(<<" ", "q">>)),
    RegisterBody(JsStr(T1), JsStr(<<"N">>), JsStr(EmailA), Undefined, JsStr(Pw2)),
    RegisterBody(JsStr(T9), JsStr(<<"N">>), JsStr(EmailC), Undefined, JsStr(Pw2)),
    RegisterBody(JsStr(T1), JsStr(<<" ">>), JsStr(EmailC), Undefined, JsStr(Pw2)),
    RegisterBody(JsStr(T1), JsStr(<<"N">>), JsStr(<<"c">>), Undefined, JsStr(Pw2)),
    RegisterBody(JsStr(T1), JsStr(<<"N">>), JsStr(EmailC), Undefined, Undefined) }

NoRow == [id |-> 0]

IdleRequest ==
  [kind |-> "none", body |-> EmptyBody,
   tenant |-> <<>>, name |-> <<>>, email |-> <<>>, phone |-> <<>>,
   countryCode |-> <<>>, password |-> <<>>,
   user |-> NoRow, passwordHash |-> <<>>, idx |-> 0, inserted |-> FALSE,
   hasConn |-> FALSE,
   \* what the request did, for the properties
   rowsBefore |-> 0, acquired |-> 0, released |-> 0, queries |-> 0,
   verifyCalls |-> 0, encryptCalls |-> 0,
   inserts |-> <<>>, touch |-> "none", thrown |-> NoError]

VARIABLES
  passwordKey,   \* process.env.PASSWORD_KEY
  userColumns,   \* the optional columns the users table has
  uniqueEmail,   \* whether the users table has a unique key on (tenant_id, email)
  tenants,       \* the tenants table
  users,         \* the users table
  checkedOut,    \* connections taken from the pool and not released
  pc,            \* where each request's handler is
  rq,            \* each request's body, locals and record of what it did
  responses,     \* the responses each request has sent
  probe          \* a call of a pure function: its arguments and its result

vars ==
  <<passwordKey, userColumns, uniqueEmail, tenants, users, checkedOut, pc, rq,
    responses, probe>>

\* no call of a pure function is being looked at
NoProbe == [fn |-> "none"]

\* the deployments the model starts from: every schema and, on the full
\* schema, a missing key, a suspended tenant, and a unique key on
\* (tenant_id, email)
Deployments ==
  { [key |-> JsStr(Secret32), columns |-> c, tenants |-> TenantsActive,
     unique |-> FALSE] : c \in Schemas }
    \cup { [key |-> Undefined, columns |-> OptionalColumns, tenants |-> TenantsActive,
            unique |-> FALSE],
           [key |-> JsStr(Secret32), columns |-> OptionalColumns,
            tenants |-> TenantsSuspended, unique |-> FALSE],
           [key |-> JsStr(Secret32), columns |-> OptionalColumns,
            tenants |-> TenantsActive, unique |-> TRUE] }

Init ==
  /\ \E d \in Deployments :
       /\ passwordKey = d.key
       /\ userColumns = d.columns
       /\ tenants = d.tenants
       /\ uniqueEmail = d.unique
  /\ users = InitialUsers
  /\ probe = NoProbe
  /\ checkedOut = 0
  /\ pc = [r \in Reqs |-> "idle"]
  /\ rq = [r \in Reqs |-> IdleRequest]
  /\ responses = [r \in Reqs |-> <<>>]

(***************************************************************************)
(* What the handlers share: responses, the pool, the statements.           *)
(***************************************************************************)
MsgMissing == <<"Faltan campos.">>
MsgInvalid == <<"Credenciales invalidas.">>
MsgDisabled == <<"Usuario o tenant desactivado.">>
MsgInternal == <<"Error interno.">>
MsgBadEmail == <<"Email invalido.">>
MsgNoTenant == <<"Tenant no encontrado.">>
MsgTenantDisabled == <<"Tenant desactivado.">>
MsgRegistered == <<"Usuario ya registrado.">>

\* res.status(code).json({ ok: false, error })
ErrorResponse(code, message) ==
  [status |-> code, body |-> [ok |-> FALSE, error |-> message]]

\* the outer catch: res.status(500).json({ ok: false, error: e?.message || "Error interno." })
CaughtResponse(e) ==
  ErrorResponse(500, IF e.message = <<>> THEN MsgInternal ELSE e.message)

\* request r arrives: requests are numbered in their order of arrival
Arrives(r) ==
  /\ pc[r] = "idle"
  /\ \A k \in Reqs : k < r => pc[k] # "idle"

\* pool.getConnection() hands out a connection
Acquired(q) ==
  [q EXCEPT !.hasConn = TRUE, !.acquired = @ + 1]

\* (variant) a handler without the finally block
Released_Never(q) == q

\* the handler's finally block: conn.release(), when it has a connection
Released(q) ==
  IF q.hasConn THEN [q EXCEPT !.hasConn = FALSE, !.released = @ + 1] ELSE q

\* the pool after a step took request r from its state to q
PoolAfter(r, q) ==
  checkedOut + (q.acquired - rq[r].acquired) - (q.released - rq[r].released)

\* a step of request r that goes on to its next await with locals q
Goto(r, q, next) ==
  /\ rq' = [rq EXCEPT ![r] = q]
  /\ checkedOut' = PoolAfter(r, q)
  /\ responses' = responses
  /\ pc' = [pc EXCEPT ![r] = next]

\* a step of request r that answers and returns: the finally block runs on the
\* way out.  A finished request is looked at before the next one finishes.
End(r, q, response) ==
  /\ \A k \in Reqs : pc[k] # "done"
  /\ rq' = [rq EXCEPT ![r] = Released(q)]
  /\ checkedOut' = PoolAfter(r, Released(q))
  /\ responses' = [responses EXCEPT ![r] = Append(@, response)]
  /\ pc' = [pc EXCEPT ![r] = "done"]

\* an error reaches the handler's outer catch, through the finally block
Throw(r, q, e) == End(r, [q EXCEPT !.thrown = e], CaughtResponse(e))

\* the errors a statement naming `columns` of users can fail with, besides
\* the faults of the store
BadFieldErrors(columns) ==
  IF columns \subseteq (BaseColumns \cup userColumns) THEN {}
  ELSE {ErrBadField(CHOOSE c \in columns : c \notin BaseColumns \cup userColumns)}

\* (variant) a lookup by email alone
LoginRows_AnyTenant(email, tenant) ==
  { [id |-> p[1].id, name |-> p[1].name, email |-> p[1].email, role |-> p[1].role,
     user_status |-> p[1].status, password_hash |-> p[1].password_hash,
     tenant_id |-> p[1].tenant_id, tenant_status |-> p[2].status] :
      p \in { p \in users \X tenants :
                /\ p[1].email = email
                /\ p[2].id = p[1].tenant_id } }

\* SELECT ... FROM users u JOIN tenants t ON t.id = u.tenant_id
\*  WHERE u.email = ? AND u.tenant_id = ? : the rows, each with its tenant's status
LoginRows(email, tenant) ==
  { [id |-> p[1].id, name |-> p[1].name, email |-> p[1].email, role |-> p[1].role,
     user_status |-> p[1].status, password_hash |-> p[1].password_hash,
     tenant_id |-> p[1].tenant_id, tenant_status |-> p[2].status] :
      p \in { p \in users \X tenants :
                /\ p[1].email = email
                /\ p[1].tenant_id = tenant
                /\ p[2].id = p[1].tenant_id } }

LoginSelectColumns == {"id", "name", "email", "role", "status", "password_hash", "tenant_id"}
TouchColumns == {"last_login_at", "id"}

(***************************************************************************)
(* POST /auth/login                                                        *)
(***************************************************************************)
\* the validation of a login body: the 400 it is answered with, <<>> for none
LoginInvalid(tenant, email, password) ==
  IF tenant = <<>> \/ email = <<>> \/ password = <<>> THEN MsgMissing ELSE <<>>

\* (variant) a gate that looks at the user's status only
LoginGate_UserOnly(user) ==
  IF ~isActiveStatus(user.user_status) THEN "disabled" ELSE "verify"

\* the status gate on the row that was found
LoginGate(user) ==
  IF ~isActiveStatus(user.user_status) \/ ~isActiveStatus(user.tenant_status)
    THEN "disabled"
    ELSE "verify"

\* String(user.password_hash ?? "")
StoredCredential(user) ==
  IF user.password_hash.type = "string" THEN user.password_hash.str ELSE <<>>

\* (variant) an unknown user told apart from a wrong password
NoRowResponse_NotFound == ErrorResponse(404, <<"Usuario no encontrado.">>)

\* (variant) a disabled account told like a wrong password
DisabledResponse_AsInvalid == ErrorResponse(401, MsgInvalid)

\* the three denials of a login that reached the store
NoRowResponse == ErrorResponse(401, MsgInvalid)
DisabledResponse == ErrorResponse(403, MsgDisabled)
BadPasswordResponse == ErrorResponse(401, MsgInvalid)

\* (variant) an answer that carries the whole row
LoginOkResponse_WholeRow(user) ==
  [status |-> 200,
   body |-> [ok |-> TRUE,
             user |-> [id |-> user.id, name |-> user.name, email |-> user.email,
                       role |-> user.role, tenant_id |-> user.tenant_id,
                       password_hash |-> user.password_hash]]]

\* the answer to a successful login
LoginOkResponse(user) ==
  [status |-> 200,
   body |-> [ok |-> TRUE,
             user |-> [id |-> user.id, name |-> user.name, email |-> user.email,
                       role |-> user.role, tenant_id |-> user.tenant_id]]]

\* (variant) a catch around the UPDATE that reports the error and goes on
TouchFailed_AnswersTwice(r, q, e) ==
  LET q1 == Released([q EXCEPT !.touch = "failed"])
  IN  /\ \A k \in Reqs : pc[k] # "done"
      /\ rq' = [rq EXCEPT ![r] = q1]
      /\ checkedOut' = PoolAfter(r, q1)
      /\ responses' = [responses EXCEPT
                         ![r] = @ \o <<CaughtResponse(e), LoginOkResponse(q.user)>>]
      /\ pc' = [pc EXCEPT ![r] = "done"]

\* (variant) no catch around the UPDATE
TouchFailed_Rethrown(r, q, e) == Throw(r, [q EXCEPT !.touch = "failed"], e)

\* what the catch around the UPDATE makes of its error: nothing
TouchFailed(r, q, e) == End(r, [q EXCEPT !.touch = "failed"], LoginOkResponse(q.user))

\* up to the first await, pool.getConnection(): normalise and validate the
\* body, then take a connection from the pool (a request that finds the pool
\* empty waits in the pool's queue, which is to arrive later) or fail to get one
LoginReceive(r) ==
  /\ Arrives(r)
  /\ \E body \in LoginBodies :
       LET tenant == toCleanString(body.tenant)
           email == ToLowerCase(toCleanString(body.email))
           password == toCleanString(body.password)
           q == [rq[r] EXCEPT !.kind = "login", !.body = body, !.tenant = tenant,
                              !.email = email, !.password = password,
                              !.rowsBefore = Cardinality(users)]
           invalid == LoginInvalid(tenant, email, password)
       IN  IF invalid # <<>>
             THEN End(r, q, ErrorResponse(400, invalid))
             ELSE \/ /\ checkedOut < connectionLimit
                     /\ Goto(r, Acquired(q), "login_select")
                  \/ Throw(r, q, ErrPoolClosed)
  /\ UNCHANGED <<probe, passwordKey, userColumns, uniqueEmail, tenants, users>>

\* await conn.query(SELECT ...) and everything up to the next await
LoginSelect(r) ==
  /\ pc[r] = "login_select"
  /\ LET q0 == [rq[r] EXCEPT !.queries = @ + 1]
     IN  \/ \E e \in StorageFaults \cup BadFieldErrors(LoginSelectColumns) :
              Throw(r, q0, e)
         \/ /\ BadFieldErrors(LoginSelectColumns) = {}
            /\ LET rows == LoginRows(q0.email, q0.tenant)
               IN  IF rows = {}
                     THEN End(r, q0, NoRowResponse)
                     ELSE \E user \in rows :
                            LET q1 == [q0 EXCEPT !.user = user]
                                q2 == [q1 EXCEPT !.verifyCalls = @ + 1]
                            IN  IF LoginGate(user) = "disabled"
                                  THEN End(r, q1, DisabledResponse)
                                ELSE IF ~verifyPassword(q1.password,
                                                        StoredCredential(user), passwordKey)
                                  THEN End(r, q2, BadPasswordResponse)
                                ELSE Goto(r, q2, "login_touch")
  /\ UNCHANGED <<probe, passwordKey, userColumns, uniqueEmail, tenants, users>>

\* (variant) an UPDATE without its WHERE clause
Touched_EveryRow(id) == { [u EXCEPT !.last_login_at = 1] : u \in users }

\* UPDATE users SET last_login_at = NOW() WHERE id = ? : the table afterwards
Touched(id) ==
  { IF u.id = id THEN [u EXCEPT !.last_login_at = 1] ELSE u : u \in users }

\* await conn.query(UPDATE users SET last_login_at = NOW() ...), its catch, the
\* response and the finally block
LoginTouch(r) ==
  /\ pc[r] = "login_touch"
  /\ LET q0 == [rq[r] EXCEPT !.queries = @ + 1]
     IN  \/ /\ \E e \in StorageFaults \cup BadFieldErrors(TouchColumns) :
                 TouchFailed(r, q0, e)
            /\ users' = users
         \/ /\ BadFieldErrors(TouchColumns) = {}
            /\ users' = Touched(q0.user.id)
            /\ End(r, [q0 EXCEPT !.touch = "ok"], LoginOkResponse(q0.user))
  /\ UNCHANGED <<probe, passwordKey, userColumns, uniqueEmail, tenants>>

(***************************************************************************)
(* POST /auth/register                                                     *)
(***************************************************************************)
\* the columns each INSERT names, in the order the handler tries them
InsertVariants ==
  << {"tenant_id", "name", "email", "phone", "country_code", "password_hash", "status", "role"},
     {"tenant_id", "name", "email", "phone", "password_hash", "status", "role"},
     {"tenant_id", "name", "email", "password_hash", "status", "role"},
     {"tenant_id", "email", "password_hash", "status", "role"} >>

\* value || null
OrNull(s) == IF s = <<>> THEN Undefined ELSE JsStr(s)

\* the row INSERT variant i adds for request q: a column it does not name is NULL
InsertedRow(q, i) ==
  UserRow(Cardinality(users) + 1,
          q.tenant,
          IF "name" \in InsertVariants[i] THEN JsStr(q.name) ELSE Undefined,
          q.email,
          IF "phone" \in InsertVariants[i] THEN OrNull(q.phone) ELSE Undefined,
          IF "country_code" \in InsertVariants[i] THEN OrNull(q.countryCode) ELSE Undefined,
          JsStr(q.passwordHash),
          JsStr(StrActivo),
          RoleUser)

\* (variant) a catch that goes on to the next variant whatever the error is
InsertOnError_AnyError(error, i) ==
  IF i < Len(InsertVariants) THEN "next" ELSE "exhausted"

\* the catch of the insert loop: rethrow, try the next variant, or leave the
\* loop with nothing inserted
InsertOnError(error, i) ==
  IF ~isBadFieldError(error) THEN "throw"
  ELSE IF i < Len(InsertVariants) THEN "next"
  ELSE "exhausted"

\* (variant) a validation that does not look at the shape of the email
RegisterInvalid_AnyEmail(tenant, name, email, password) ==
  IF tenant = <<>> \/ name = <<>> \/ email = <<>> \/ password = <<>> THEN MsgMissing
  ELSE <<>>

\* the validation of a register body: the 400 it is answered with, <<>> for none
RegisterInvalid(tenant, name, email, password) ==
  IF tenant = <<>> \/ name = <<>> \/ email = <<>> \/ password = <<>> THEN MsgMissing
  ELSE IF ~IncludesChar(email, "@") THEN MsgBadEmail
  ELSE <<>>

\* (variant) a tenant check that does not look at the status
TenantGate_AnyStatus(tenantRows) ==
  IF tenantRows = {} THEN "not_found" ELSE "pass"

\* the checks on the tenant row: 404, 403, or on to the duplicate check
TenantGate(tenantRows) ==
  IF tenantRows = {} THEN "not_found"
  ELSE IF \E t \in tenantRows : ~isActiveStatus(t.status) THEN "disabled"
  ELSE "pass"

\* the answer to a successful register
RegisterOkResponse == [status |-> 200, body |-> [ok |-> TRUE]]

\* the seeds of crypto.randomBytes the model draws the IV from
IvSeeds == {7, 200}

\* up to the first await, pool.getConnection(): as in login
RegisterReceive(r) ==
  /\ Arrives(r)
  /\ \E body \in RegisterBodies :
       LET tenant == toCleanString(body.tenant)
           name == toCleanString(body.name)
           email == ToLowerCase(toCleanString(body.email))
           phone == toCleanString(body.phone)
           countryCode == toCleanString(body.country_code)
           password == toCleanString(body.password)
           q == [rq[r] EXCEPT !.kind = "register", !.body = body, !.tenant = tenant,
                              !.name = name, !.email = email, !.phone = phone,
                              !.countryCode = countryCode, !.password = password,
                              !.rowsBefore = Cardinality(users)]
           invalid == RegisterInvalid(tenant, name, email, password)
       IN  IF invalid # <<>>
             THEN End(r, q, ErrorResponse(400, invalid))
             ELSE \/ /\ checkedOut < connectionLimit
                     /\ Goto(r, Acquired(q), "reg_tenant")
                  \/ Throw(r, q, ErrPoolClosed)
  /\ UNCHANGED <<probe, passwordKey, userColumns, uniqueEmail, tenants, users>>

\* (variant) a register that finds no row whatever the table holds
RegisterRows_None(tenant, email) == {}

\* SELECT id FROM users WHERE tenant_id = ? AND email = ? LIMIT 1: the rows
RegisterRows(tenant, email) ==
  {u \in users : u.tenant_id = tenant /\ u.email = email}

\* await conn.query(SELECT id, status FROM tenants WHERE id = ?) and its checks
RegisterTenant(r) ==
  /\ pc[r] = "reg_tenant"
  /\ LET q0 == [rq[r] EXCEPT !.queries = @ + 1]
         tenantRows == {t \in tenants : t.id = q0.tenant}
     IN  \/ \E e \in StorageFaults : Throw(r, q0, e)
         \/ CASE TenantGate(tenantRows) = "not_found" ->
                   End(r, q0, ErrorResponse(404, MsgNoTenant))
              [] TenantGate(tenantRows) = "disabled" ->
                   End(r, q0, ErrorResponse(403, MsgTenantDisabled))
              [] OTHER -> Goto(r, q0, "reg_existing")
  /\ UNCHANGED <<probe, passwordKey, userColumns, uniqueEmail, tenants, users>>

\* await conn.query(SELECT id FROM users WHERE tenant_id = ? AND email = ?),
\* the duplicate check and encryptPassword
RegisterExisting(r) ==
  /\ pc[r] = "reg_existing"
  /\ LET q0 == [rq[r] EXCEPT !.queries = @ + 1]
         userRows == RegisterRows(q0.tenant, q0.email)
     IN  \/ \E e \in StorageFaults : Throw(r, q0, e)
         \/ IF userRows # {}
              THEN End(r, q0, ErrorResponse(409, MsgRegistered))
              ELSE \E seed \in IvSeeds :
                     LET enc == encryptPassword(q0.password, passwordKey, seed)
                         q1 == [q0 EXCEPT !.encryptCalls = @ + 1]
                     IN  IF enc.threw
                           THEN Throw(r, q1, enc.error)
                           ELSE Goto(r, [q1 EXCEPT !.passwordHash = enc.value,
                                                   !.idx = 1], "reg_insert")
  /\ UNCHANGED <<probe, passwordKey, userColumns, uniqueEmail, tenants, users>>

\* what the unique key, when the table has one, fails an INSERT of request q
\* with: the statement's columns are resolved before the key is checked
KeyErrors(q, columns) ==
  IF /\ uniqueEmail
     /\ BadFieldErrors(columns) = {}
     /\ \E u \in users : u.tenant_id = q.tenant /\ u.email = q.email
    THEN {ErrDupEntry} ELSE {}

\* (variant) an answer that does not look at what the loop did
LoopExit_Unchecked(r, q, inserted) == End(r, q, RegisterOkResponse)

\* what follows the insert loop: the throw when nothing was inserted, else
\* the answer
LoopExit(r, q, inserted) ==
  IF ~inserted THEN Throw(r, q, ErrNoInsert) ELSE End(r, q, RegisterOkResponse)

\* (variant) a loop that goes on after a variant succeeded
InsertOnSuccess_Continue(i) ==
  IF i < Len(InsertVariants) THEN "next" ELSE "exhausted"

\* the try block of the insert loop after a variant succeeded: inserted = true; break
InsertOnSuccess(i) == "break"

\* one turn of the insert loop: await conn.query(insert.sql, insert.params),
\* what the try block or its catch does next and, when the loop ends here, what
\* follows the loop
RegisterInsert(r) ==
  /\ pc[r] = "reg_insert"
  /\ LET i == rq[r].idx
         q0 == [rq[r] EXCEPT !.queries = @ + 1]
         logged(e) == [q0 EXCEPT !.inserts = Append(@, [variant |-> i, error |-> e])]
         done(e) == [logged(e) EXCEPT !.inserted = TRUE]
     IN  \/ /\ users' = users
            /\ \E e \in StorageFaults \cup BadFieldErrors(InsertVariants[i])
                         \cup KeyErrors(q0, InsertVariants[i]) :
                 CASE InsertOnError(e, i) = "throw" -> Throw(r, logged(e), e)
                   [] InsertOnError(e, i) = "next" ->
                        Goto(r, [logged(e) EXCEPT !.idx = i + 1], "reg_insert")
                   [] OTHER -> LoopExit(r, logged(e), q0.inserted)
         \/ /\ BadFieldErrors(InsertVariants[i]) = {}
            /\ KeyErrors(q0, InsertVariants[i]) = {}
            /\ users' = users \cup {InsertedRow(q0, i)}
            /\ CASE InsertOnSuccess(i) = "next" ->
                      Goto(r, [done(NoError) EXCEPT !.idx = i + 1], "reg_insert")
                 [] OTHER -> LoopExit(r, done(NoError), TRUE)
  /\ UNCHANGED <<probe, passwordKey, userColumns, uniqueEmail, tenants>>

(***************************************************************************)
(* The specification: requests arrive and their handlers interleave at     *)
(* every await; a finished request's frame is dropped.                     *)
(***************************************************************************)
\* the handler of request r has returned and its response is delivered
Retire(r) ==
  /\ pc[r] = "done"
  /\ pc' = [pc EXCEPT ![r] = "retired"]
  /\ rq' = [rq EXCEPT ![r] = IdleRequest]
  /\ responses' = [responses EXCEPT ![r] = <<>>]
  /\ UNCHANGED <<probe, passwordKey, userColumns, uniqueEmail, tenants, users, checkedOut>>

Next ==
  \E r \in Reqs :
    \/ LoginReceive(r)
    \/ LoginSelect(r)
    \/ LoginTouch(r)
    \/ RegisterReceive(r)
    \/ RegisterTenant(r)
    \/ RegisterExisting(r)
    \/ RegisterInsert(r)
    \/ Retire(r)

Spec == Init /\ [][Next]_vars

\* a register is in its handler
RegisterRunning ==
  \E k \in Reqs : rq[k].kind = "register" /\ pc[k] \notin {"idle", "done", "retired"}

\* the server when registers do not overlap: a register begins once the one
\* before it has returned
SerialNext ==
  \E r \in Reqs :
    \/ LoginReceive(r)
    \/ LoginSelect(r)
    \/ LoginTouch(r)
    \/ ~RegisterRunning /\ RegisterReceive(r)
    \/ RegisterTenant(r)
    \/ RegisterExisting(r)
    \/ RegisterInsert(r)
    \/ Retire(r)

SerialSpec == Init /\ [][SerialNext]_vars

(***************************************************************************)
(* GET /health/db, GET /health/db-info and the helper query(sql, params).  *)
(***************************************************************************)
\* res.json({ ok: true, db: r[0] }) and res.json({ ok: true, info: r[0] })
HealthOkResponse(kind) ==
  [status |-> 200,
   body |-> [ok |-> TRUE, field |-> IF kind = "health_db" THEN "db" ELSE "info"]]

\* res.status(500).json({ ok: false, error: e?.message || String(e) })
HealthCaughtResponse(e) ==
  ErrorResponse(500, IF e.message = <<>> THEN <<"Error">> ELSE e.message)

\* a step of a health check r that answers and returns: there is no finally block
Answered(r, q, response) ==
  /\ \A k \in Reqs : pc[k] # "done"
  /\ rq' = [rq EXCEPT ![r] = q]
  /\ checkedOut' = PoolAfter(r, q)
  /\ responses' = [responses EXCEPT ![r] = Append(@, response)]
  /\ pc' = [pc EXCEPT ![r] = "done"]

\* a step of a call r of the helper that returns or throws to its caller,
\* through the finally block
Returned(r, q) ==
  /\ \A k \in Reqs : pc[k] # "done"
  /\ rq' = [rq EXCEPT ![r] = Released(q)]
  /\ checkedOut' = PoolAfter(r, Released(q))
  /\ responses' = responses
  /\ pc' = [pc EXCEPT ![r] = "done"]

\* a health check up to its first await, pool.getConnection(), inside the try
HealthReceive(r) ==
  /\ Arrives(r)
  /\ \E kind \in {"health_db", "health_db_info"} :
       LET q == [rq[r] EXCEPT !.kind = kind]
       IN  \/ /\ checkedOut < connectionLimit
              /\ Goto(r, Acquired(q), "health_query")
           \/ Answered(r, [q EXCEPT !.thrown = ErrPoolClosed],
                        HealthCaughtResponse(ErrPoolClosed))
  /\ UNCHANGED <<probe, passwordKey, userColumns, uniqueEmail, tenants, users>>

\* await conn.query(SELECT ...); conn.release(); res.json(...), or the catch
HealthQuery(r) ==
  /\ pc[r] = "health_query"
  /\ LET q0 == [rq[r] EXCEPT !.queries = @ + 1]
     IN  \/ \E e \in StorageFaults :
              Answered(r, [q0 EXCEPT !.thrown = e], HealthCaughtResponse(e))
         \/ Answered(r, Released(q0), HealthOkResponse(q0.kind))
  /\ UNCHANGED <<probe, passwordKey, userColumns, uniqueEmail, tenants, users>>

\* query(sql, params) up to its first await, pool.getConnection()
QueryCall(r) ==
  /\ Arrives(r)
  /\ LET q == [rq[r] EXCEPT !.kind = "query"]
     IN  \/ /\ checkedOut < connectionLimit
            /\ Goto(r, Acquired(q), "query_run")
         \/ Returned(r, [q EXCEPT !.thrown = ErrPoolClosed])
  /\ UNCHANGED <<probe, passwordKey, userColumns, uniqueEmail, tenants, users>>

\* await conn.query(sql, params) and the finally block
QueryRun(r) ==
  /\ pc[r] = "query_run"
  /\ LET q0 == [rq[r] EXCEPT !.queries = @ + 1]
     IN  \/ \E e \in StorageFaults : Returned(r, [q0 EXCEPT !.thrown = e])
         \/ Returned(r, q0)
  /\ UNCHANGED <<probe, passwordKey, userColumns, uniqueEmail, tenants, users>>

\* every endpoint that takes a connection from the pool, and the helper
PoolNext ==
  \/ Next
  \/ \E r \in Reqs :
       \/ HealthReceive(r)
       \/ HealthQuery(r)
       \/ QueryCall(r)
       \/ QueryRun(r)

PoolSpec == Init /\ [][PoolNext]_vars

\* the awaited storage call of request r returns or fails, and the handler runs
\* on to its next await or to its end.  The step is owed to r whenever no
\* finished request is waiting to be looked at.
Continue(r) ==
  /\ \A k \in Reqs : pc[k] # "done"
  /\ \/ LoginSelect(r)
     \/ LoginTouch(r)
     \/ RegisterTenant(r)
     \/ RegisterExisting(r)
     \/ RegisterInsert(r)

\* the specification under which every storage call returns or fails, and
\* every finished request is looked at
FairSpec ==
  Spec /\ \A r \in Reqs : WF_vars(Continue(r)) /\ WF_vars(Retire(r))

(***************************************************************************)
(* Calls of the pure functions.  A second specification draws the          *)
(* arguments of one call from the sets below and applies the functions:    *)
(* encryptPassword, an edit of the stored text, decryptPassword,           *)
(* verifyPassword, and isActiveStatus.                                     *)
(***************************************************************************)
\* a key of 64 hex digits and one of 43 base64 characters and a pad
HexKey64 == [i \in 1..64 |-> HexDigits[((7 * i) % 16) + 1]]
Base64Key44 == [i \in 1..43 |-> Base64Chars[((5 * i) % 64) + 1]] \o <<"=">>

\* process.env.PASSWORD_KEY: the three accepted forms, unset, and too short
ProbeKeys ==
  { JsStr(Secret32), JsStr(HexKey64), JsStr(Base64Key44), Undefined,
    JsStr(<<"a", "b", "c">>) }

\* more values of process.env.PASSWORD_KEY, around the three accepted forms:
\* hex in capitals, 63 and 65 hex digits, 64 characters one of which is not a
\* hex digit, base64 of 43 characters with no pad, of 44 with none, of 42 with
\* two pads, with text after the pad and with the pad first, 32 characters
\* all of them base64, 30 and 32 characters one of which takes 3 bytes, and
\* the empty string
HexUpper64 == [i \in 1..64 |-> HexUpper[((7 * i) % 16) + 1]]
Base64Only(n) == [i \in 1..n |-> Base64Chars[((5 * i) % 64) + 1]]
Ascii(n) == [i \in 1..n |-> Secret32[((i - 1) % 32) + 1]]
ProbeSecrets ==
  ProbeKeys \cup
  { JsStr(<<>>), JsStr(HexUpper64),
    JsStr(SubSeq(HexKey64, 1, 63)), JsStr(HexKey64 \o <<"0">>),
    JsStr([HexKey64 EXCEPT ![40] = "g"]), JsStr([HexKey64 EXCEPT ![40] = "-"]),
    JsStr(Base64Only(43)), JsStr(Base64Only(44)),
    JsStr(Base64Only(42) \o <<"=", "=">>),
    JsStr(Base64Only(43) \o <<"=">> \o Base64Only(4)),
    JsStr(<<"=">> \o Base64Only(43)),
    JsStr([Base64Only(44) EXCEPT ![44] = "-"]),
    JsStr(Base64Only(32)), JsStr(Base64Only(31)),
    JsStr(Ascii(29) \o <<ReplacementChar>>),
    JsStr(Ascii(31) \o <<ReplacementChar>>),
    JsStr(Ascii(33)) }

\* the strings a password or a stored credential is drawn from
ProbeStrings ==
  { <<>>, Pw2, Pw1, <<"P", "w", "1">>, <<"p", "w", "1", " ">>,
    <<"a", ":", "b">>, <<"a", ":", "b", ":", "c">>, <<"a", ":", "b", ":", "c", ":", "d">>,
    <<"U+D800">>, <<"U+DC00">>, <<ReplacementChar>> }

\* the field of a stored text that an edit changes, and the text with the
\* field replaced
FieldOf(stored, k) == SplitColon(stored)[k]
WithField(stored, k, field) ==
  LET parts == [SplitColon(stored) EXCEPT ![k] = field]
  IN  parts[1] \o <<":">> \o parts[2] \o <<":">> \o parts[3]

\* a hex digit other than c
OtherDigit(c) == HexDigits[((HexVal(c) + 1) % 16) + 1]

\* the edits of an envelope iv:tag:data: text that is no hex after a field,
\* another first digit in a field, a tag cut to 4 bytes, upper-case digits, a
\* field less, a field more, an empty tag, a tag that is no hex at all
Edits ==
  { "junk_iv", "junk_tag", "junk_data", "flip_iv", "flip_tag", "flip_data",
    "short_tag", "upper", "drop_data", "extra_field", "empty_tag", "nonhex_tag" }
FieldEdited == [junk_iv |-> 1, junk_tag |-> 2, junk_data |-> 3,
                flip_iv |-> 1, flip_tag |-> 2, flip_data |-> 3]
Edited(stored, e) ==
  IF e \in {"junk_iv", "junk_tag", "junk_data"}
    THEN WithField(stored, FieldEdited[e], FieldOf(stored, FieldEdited[e]) \o <<"z", "z">>)
  ELSE IF e \in {"flip_iv", "flip_tag", "flip_data"}
    THEN LET f == FieldOf(stored, FieldEdited[e])
         IN  IF f = <<>> THEN stored
             ELSE WithField(stored, FieldEdited[e], <<OtherDigit(f[1])>> \o Tail(f))
  ELSE IF e = "short_tag"
    THEN LET f == FieldOf(stored, 2)
         IN  WithField(stored, 2, SubSeq(f, 1, IF Len(f) < 8 THEN Len(f) ELSE 8))
  ELSE IF e = "upper"
    THEN [i \in 1..Len(stored) |->
            IF IsHexChar(stored[i]) THEN HexUpper[HexVal(stored[i]) + 1] ELSE stored[i]]
  ELSE IF e = "drop_data" THEN FieldOf(stored, 1) \o <<":">> \o FieldOf(stored, 2)
  ELSE IF e = "extra_field" THEN stored \o <<":", "0", "0">>
  ELSE IF e = "empty_tag" THEN WithField(stored, 2, <<>>)
  ELSE WithField(stored, 2, [i \in 1..(2 * TagLen) |-> "z"])

\* the status values: a word between two runs of white space, or no string
StatusWords ==
  { <<>>, StrActivo, <<"A","C","T","I","V","O">>, <<"A","c","t","i","v","e">>,
    StrEnabled, <<"E","n","a","b","l","e","d">>,
    StrSuspended, <<"i","n","a","c","t","i","v","e">>, <<"a","c","t","i","v">>,
    <<"a","c","t","i","v","o","s">>, <<"a","c","t"," ","i","v","o">>,
    <<"1">>, <<"d","i","s","a","b","l","e","d">>, <<"o","n">> }
StatusPads == { <<>>, <<" ">>, <<"\t", "\n">> }
JsNumber == [type |-> "number", str |-> <<>>]

NoResult == [type |-> "none"]
CodecProbe(p) ==
  [fn |-> "codec", step |-> "plain", plain |-> p, stored |-> <<>>,
   origin |-> "none", edit |-> "none", guess |-> <<>>, out |-> NoResult]
StatusProbe(value, word) ==
  [fn |-> "status", step |-> "raw", value |-> value, word |-> word, out |-> NoResult]
KeyProbe == [fn |-> "key", step |-> "raw", out |-> NoResult]

ProbeInit ==
  /\ \/ /\ passwordKey \in ProbeKeys
        /\ \/ \E p \in ProbeStrings : probe = CodecProbe(p)
           \/ \E l \in StatusPads, w \in StatusWords, r \in StatusPads :
                probe = StatusProbe(JsStr(l \o w \o r), w)
           \/ \E v \in {Undefined, Null, JsNumber} : probe = StatusProbe(v, <<>>)
     \/ /\ passwordKey \in ProbeSecrets
        /\ probe = KeyProbe
  /\ userColumns = OptionalColumns
  /\ uniqueEmail = FALSE
  /\ tenants = {}
  /\ users = {}
  /\ checkedOut = 0
  /\ pc = [r \in Reqs |-> "idle"]
  /\ rq = [r \in Reqs |-> IdleRequest]
  /\ responses = [r \in Reqs |-> <<>>]

\* the variables of the server, which a call of a pure function leaves alone
server ==
  <<passwordKey, userColumns, uniqueEmail, tenants, users, checkedOut, pc, rq,
    responses>>

\* encryptPassword(plain)
ProbeEncrypt ==
  /\ probe.fn = "codec" /\ probe.step = "plain"
  /\ \E seed \in IvSeeds :
       LET enc == encryptPassword(probe.plain, passwordKey, seed)
       IN  probe' = IF enc.threw
                      THEN [probe EXCEPT !.step = "threw", !.out = enc.error]
                      ELSE [probe EXCEPT !.step = "stored", !.stored = enc.value,
                                         !.origin = "encrypt"]
  /\ UNCHANGED server

\* a row written before encryption was introduced: the password as it is
ProbeLegacy ==
  /\ probe.fn = "codec" /\ probe.step = "plain"
  /\ probe' = [probe EXCEPT !.step = "stored", !.stored = probe.plain,
                            !.origin = "legacy"]
  /\ UNCHANGED server

\* the stored envelope is changed before it is read
ProbeEdit ==
  /\ probe.fn = "codec" /\ probe.step = "stored"
  /\ probe.origin = "encrypt" /\ probe.edit = "none"
  /\ \E e \in Edits :
       /\ Edited(probe.stored, e) # probe.stored
       /\ probe' = [probe EXCEPT !.stored = Edited(probe.stored, e), !.edit = e]
  /\ UNCHANGED server

\* decryptPassword(stored)
ProbeDecrypt ==
  /\ probe.fn = "codec" /\ probe.step = "stored"
  /\ probe' = [probe EXCEPT !.step = "decrypted",
                            !.out = decryptPassword(probe.stored, passwordKey)]
  /\ UNCHANGED server

\* verifyPassword(guess, stored)
ProbeVerify ==
  /\ probe.fn = "codec" /\ probe.step = "stored"
  /\ \E g \in ProbeStrings :
       probe' = [probe EXCEPT !.step = "verified", !.guess = g,
                   !.out = verifyPassword(g, probe.stored, passwordKey)]
  /\ UNCHANGED server

\* isActiveStatus(value)
ProbeStatus ==
  /\ probe.fn = "status" /\ probe.step = "raw"
  /\ probe' = [probe EXCEPT !.step = "classified",
                            !.out = isActiveStatus(probe.value)]
  /\ UNCHANGED server

\* getAesKey()
ProbeKey ==
  /\ probe.fn = "key" /\ probe.step = "raw"
  /\ probe' = [probe EXCEPT !.step = "resolved", !.out = getAesKey(passwordKey)]
  /\ UNCHANGED server

ProbeNext ==
  \/ ProbeKey
  \/ ProbeEncrypt
  \/ ProbeLegacy
  \/ ProbeEdit
  \/ ProbeDecrypt
  \/ ProbeVerify
  \/ ProbeStatus

ProbeSpec == ProbeInit /\ [][ProbeNext]_vars

(***************************************************************************)
(* Properties.  A request is looked at in the state its handler returned   *)
(* in: its body and locals and what it did are in rq, its answer in        *)
(* responses.                                                              *)
(***************************************************************************)
Done(r) == pc[r] = "done"
Answer(r) == responses[r][1]
IsLogin(r) == Done(r) /\ rq[r].kind = "login"
IsRegister(r) == Done(r) /\ rq[r].kind = "register"

\* the lookup of login r returned a row
FoundRow(r) == rq[r].user # NoRow
\* the status gate lets the row of login r through
RowActive(r) ==
  isActiveStatus(rq[r].user.user_status) /\ isActiveStatus(rq[r].user.tenant_status)
\* the password of login r verifies against the row's credential
RowVerifies(r) ==
  verifyPassword(rq[r].password, StoredCredential(rq[r].user), passwordKey)

\* the lookup of login r completed and returned no row
LoginNoRowCase(r) ==
  /\ IsLogin(r) /\ rq[r].queries = 1 /\ rq[r].thrown = NoError /\ ~FoundRow(r)
\* login r found an active row of an active tenant and the password is wrong
LoginBadPasswordCase(r) ==
  /\ IsLogin(r) /\ FoundRow(r) /\ RowActive(r) /\ ~RowVerifies(r)

\* C1: a login for which no (tenant, email) row exists and a login whose row is
\* active but whose password does not verify get the same answer: status 401
\* and the same body, ok false with the same error message.
C1_SameDenial ==
  \A r \in Reqs :
    (LoginNoRowCase(r) \/ LoginBadPasswordCase(r)) =>
      responses[r] = <<[status |-> 401,
                        body |-> [ok |-> FALSE, error |-> MsgInvalid]]>>

C1_Witness ==
  \E r \in Reqs : LoginBadPasswordCase(r) /\ Answer(r).status = 401

\* C2: a login is answered ok:true exactly when its lookup returned a row of the
\* users table for (tenant, lower-cased email), the user's and the tenant's
\* status are both active and the password verifies against the stored
\* credential; the body then holds id, name, email, role and tenant_id of that
\* row and nothing else.
C2_LoginOkIff ==
  \A r \in Reqs :
    IsLogin(r) =>
      /\ Len(responses[r]) = 1
      /\ Answer(r).body.ok <=> (FoundRow(r) /\ RowActive(r) /\ RowVerifies(r))
      /\ FoundRow(r) =>
           rq[r].user \in LoginRows(ToLowerCase(toCleanString(rq[r].body.email)),
                                    toCleanString(rq[r].body.tenant))
      /\ Answer(r).body.ok =>
           /\ Answer(r).status = 200
           /\ DOMAIN Answer(r).body = {"ok", "user"}
           /\ DOMAIN Answer(r).body.user = {"id", "name", "email", "role", "tenant_id"}
           /\ \A f \in DOMAIN Answer(r).body.user :
                Answer(r).body.user[f] = rq[r].user[f]

C2_Witness ==
  \E r \in Reqs :
    /\ IsLogin(r) /\ Answer(r).body.ok
    /\ IncludesChar(StoredCredential(rq[r].user), ":")

\* C3: a login whose row has an inactive user status or an inactive tenant
\* status is answered 403, whatever the password, and the password is not
\* verified.
C3_DisabledIs403 ==
  \A r \in Reqs :
    (IsLogin(r) /\ FoundRow(r) /\ ~RowActive(r)) =>
      /\ responses[r] = <<[status |-> 403,
                           body |-> [ok |-> FALSE, error |-> MsgDisabled]]>>
      /\ rq[r].verifyCalls = 0

C3_Witness ==
  \E r \in Reqs :
    /\ IsLogin(r) /\ FoundRow(r) /\ ~RowActive(r) /\ RowVerifies(r)
    /\ Answer(r).status = 403

\* C4: a login that passed every check is answered ok:true whether the update of
\* the last-login timestamp succeeded or failed; the update's error reaches
\* neither the outer catch nor the answer.
C4_TouchNeverFails ==
  \A r \in Reqs :
    (IsLogin(r) /\ FoundRow(r) /\ RowActive(r) /\ RowVerifies(r)) =>
      /\ rq[r].touch \in {"ok", "failed"}
      /\ rq[r].thrown = NoError
      /\ Answer(r).status = 200 /\ Answer(r).body.ok

C4_Witness ==
  \E r \in Reqs : IsLogin(r) /\ rq[r].touch = "failed" /\ Answer(r).body.ok

\* the body of login r lacks a tenant, an email or a password, once trimmed
LoginBodyBlank(r) ==
  \E f \in {"tenant", "email", "password"} : toCleanString(rq[r].body[f]) = <<>>
\* the body of register r lacks a required field or its email has no "@"
RegisterBodyBad(r) ==
  \/ \E f \in {"tenant", "name", "email", "password"} :
       toCleanString(rq[r].body[f]) = <<>>
  \/ ~IncludesChar(toCleanString(rq[r].body.email), "@")

\* C5: a login with a missing or blank tenant, email or password, and a register
\* with a missing required field or an email without "@", are answered 400
\* without a connection taken from the pool and without a statement run.
C5_InvalidTouchesNoStorage ==
  \A r \in Reqs :
    ((IsLogin(r) /\ LoginBodyBlank(r)) \/ (IsRegister(r) /\ RegisterBodyBad(r))) =>
      /\ Answer(r).status = 400
      /\ rq[r].acquired = 0 /\ rq[r].queries = 0 /\ ~rq[r].hasConn

C5_Witness ==
  \E r \in Reqs :
    /\ IsRegister(r) /\ Answer(r).status = 400
    /\ toCleanString(rq[r].body.email) # <<>>
    /\ ~IncludesChar(toCleanString(rq[r].body.email), "@")


\* the rows of tenants and of users that the body of register r names
TenantRowsOf(r) == {t \in tenants : t.id = toCleanString(rq[r].body.tenant)}
ExistingRowsOf(r) ==
  {u \in users : /\ u.tenant_id = toCleanString(rq[r].body.tenant)
                 /\ u.email = ToLowerCase(toCleanString(rq[r].body.email))}
\* register r leaves the given step with no exception caught
StepsFrom(r, label) ==
  pc[r] = label /\ pc'[r] # label /\ rq'[r].thrown = NoError
\* the step ends register r with the given error answer, and the request has
\* encrypted nothing, attempted no INSERT and added no row
RejectedWith(r, code, message) ==
  /\ pc'[r] = "done"
  /\ responses'[r] = <<[status |-> code, body |-> [ok |-> FALSE, error |-> message]]>>
  /\ rq'[r].encryptCalls = 0
  /\ rq'[r].inserts = <<>>
  /\ users' = users

\* C6: a register with a valid body whose tenant row is absent is answered 404;
\* otherwise, if the tenant's status is inactive, 403; otherwise, if a row for
\* (tenant, email) exists, 409; in each case no password has been encrypted and
\* no INSERT has been attempted.
C6_RejectionOrder ==
  [][\A r \in Reqs :
       /\ StepsFrom(r, "reg_tenant") =>
            IF TenantRowsOf(r) = {}
              THEN RejectedWith(r, 404, MsgNoTenant)
              ELSE IF \E t \in TenantRowsOf(r) : ~isActiveStatus(t.status)
                THEN RejectedWith(r, 403, MsgTenantDisabled)
                ELSE pc'[r] # "done" /\ responses'[r] = <<>>
       /\ StepsFrom(r, "reg_existing") =>
            IF ExistingRowsOf(r) # {}
              THEN RejectedWith(r, 409, MsgRegistered)
              ELSE pc'[r] # "done" /\ responses'[r] = <<>>
    ]_vars

C6_Witness ==
  \E r \in Reqs :
    /\ IsRegister(r) /\ Answer(r).status = 403
    /\ ExistingRowsOf(r) # {}
    /\ rq[r].encryptCalls = 0 /\ rq[r].inserts = <<>>

\* the INSERT attempts of request r that the store accepted
Accepted(log) == {k \in 1..Len(log) : log[k].error = NoError}

\* C7: a register is answered ok:true only after one of its INSERT variants
\* succeeded; at most one variant of a request succeeds, and nothing is
\* attempted after it; a successful register has added exactly one user row.
C7_OneInsertPerSuccess ==
  [][\A r \in Reqs :
       (rq'[r] # rq[r] /\ rq'[r].kind = "register") =>
         LET log == rq'[r].inserts
             grew == Len(log) > Len(rq[r].inserts)
             ok == pc'[r] = "done" /\ responses'[r][1].body.ok
         IN  /\ Cardinality(Accepted(log)) <= 1
             /\ Accepted(log) \subseteq {Len(log)}
             /\ ok => /\ Accepted(log) # {}
                      /\ responses'[r] = <<[status |-> 200, body |-> [ok |-> TRUE]]>>
             /\ IF grew /\ Accepted(log) # {}
                  THEN /\ users \subseteq users'
                       /\ Cardinality(users') = Cardinality(users) + 1
                       /\ ok
                  ELSE users' = users
    ]_vars

C7_Witness ==
  \E r \in Reqs :
    /\ IsRegister(r) /\ Answer(r).body.ok
    /\ Len(rq[r].inserts) = 3
    /\ ExistingRowsOf(r) # {}

\* the error is of the column-not-found class: the class marker, or the words
\* of the message
ColumnNotFound(e) ==
  \/ e.code = "ER_BAD_FIELD_ERROR"
  \/ \E k \in 1..Len(e.message) : e.message[k] = "Unknown column"

\* C8: the INSERT variants are attempted in their fixed order, variant i+1 only
\* after variant i failed with a column-not-found error; any other error ends
\* the loop at once and the request is answered 500.
C8_VariantsInOrder ==
  \A r \in Reqs :
    LET log == rq[r].inserts
    IN  /\ Len(log) <= Len(InsertVariants)
        /\ \A k \in 1..Len(log) :
             /\ log[k].variant = k
             /\ k < Len(log) => ColumnNotFound(log[k].error)
             /\ (log[k].error # NoError /\ ~ColumnNotFound(log[k].error)) =>
                  /\ k = Len(log)
                  /\ Done(r)
                  /\ Answer(r).status = 500 /\ ~Answer(r).body.ok
        /\ (pc[r] = "reg_insert") =>
             /\ rq[r].idx = Len(log) + 1
             /\ \A k \in 1..Len(log) : ColumnNotFound(log[k].error)

C8_Witness ==
  \E r \in Reqs :
    /\ IsRegister(r) /\ Answer(r).status = 500
    /\ Len(rq[r].inserts) = 2
    /\ ColumnNotFound(rq[r].inserts[1].error)
    /\ ~ColumnNotFound(rq[r].inserts[2].error)

\* every variant of the list was attempted and failed with column not found
AllVariantsRejected(log) ==
  /\ Len(log) = Len(InsertVariants)
  /\ \A k \in 1..Len(log) : ColumnNotFound(log[k].error)

\* C9: when every INSERT variant fails with a column-not-found error the
\* register is answered 500 with ok false, never with success, and no user row
\* has been added.
C9_ExhaustedIs500 ==
  [][\A r \in Reqs :
       /\ (Len(rq'[r].inserts) > Len(rq[r].inserts)
             /\ ColumnNotFound(rq'[r].inserts[Len(rq'[r].inserts)].error)) =>
            users' = users
       /\ (AllVariantsRejected(rq'[r].inserts) /\ ~AllVariantsRejected(rq[r].inserts)) =>
            /\ pc'[r] = "done"
            /\ Len(responses'[r]) = 1
            /\ responses'[r][1].status = 500
            /\ ~responses'[r][1].body.ok
    ]_vars

C9_Witness ==
  \E r \in Reqs :
    /\ IsRegister(r) /\ AllVariantsRejected(rq[r].inserts)
    /\ Answer(r).status = 500
    /\ ExistingRowsOf(r) = {}

\* C10: a handler that acquired a connection has released it exactly once when
\* it has answered, on every exit path: the early 401, 403, 404 and 409, the
\* success, and an exception thrown by a query, by the encryption or by the
\* insert loop; the pool counts as checked out the connections still held.
C10_ReleasedOnce ==
  /\ \A r \in Reqs :
       /\ rq[r].acquired <= 1
       /\ Done(r) => ~rq[r].hasConn /\ rq[r].released = rq[r].acquired
       /\ ~Done(r) => rq[r].released = 0 /\ (rq[r].hasConn <=> rq[r].acquired = 1)
  /\ checkedOut = Cardinality({r \in Reqs : rq[r].hasConn})

C10_Witness ==
  \E r \in Reqs :
    /\ IsRegister(r) /\ rq[r].thrown = ErrPasswordKey
    /\ rq[r].acquired = 1 /\ rq[r].released = 1
    /\ checkedOut = 0

\* C11: when two registers of the same (tenant, email) both pass the duplicate
\* check before either inserts, exactly one of the two inserts lands: a
\* register that passed the duplicate check and went through its insert leaves
\* exactly one user row for its (tenant, email).
C11_OneInsertLands ==
  \A r \in Reqs :
    (/\ IsRegister(r)
     /\ rq[r].encryptCalls = 1
     /\ rq[r].thrown \in {NoError, ErrDupEntry}) =>
      Cardinality(ExistingRowsOf(r)) = 1

(***************************************************************************)
(* Properties of the pure functions, under ProbeSpec.                      *)
(***************************************************************************)
\* the call looked at is verifyPassword, decryptPassword, isActiveStatus
Verified == probe.fn = "codec" /\ probe.step = "verified"
Decrypted == probe.fn = "codec" /\ probe.step = "decrypted"
Classified == probe.fn = "status" /\ probe.step = "classified"

\* the text has the shape of an envelope: three fields between two colons
ThreeParts(s) == Cardinality({i \in 1..Len(s) : s[i] = ":"}) = 2

\* the string is text: it holds no surrogate without its other half
WellFormed(s) == \A i \in 1..Len(s) : s[i] \notin LoneSurrogates

\* C12: for a stored credential that is legacy plaintext, any non-empty string
\* without the three-part colon structure (one colon, or three and more,
\* included), verifyPassword(p, stored) is true exactly when p equals stored
\* (p and stored being text).
C12_LegacyVerifiesIffEqual ==
  (/\ Verified
   /\ probe.origin = "legacy"
   /\ probe.stored # <<>>
   /\ ~ThreeParts(probe.stored)
   /\ WellFormed(probe.stored) /\ WellFormed(probe.guess)) =>
    (probe.out <=> probe.guess = probe.stored)

\* the call is on an envelope as encryptPassword made it, from text
OnEnvelope ==
  /\ probe.fn = "codec"
  /\ probe.origin = "encrypt" /\ probe.edit = "none"

\* C13 as stated: for every envelope made by encryptPassword under the active
\* key, verifyPassword(p, envelope) is true exactly when p equals the plaintext
\* that was encrypted; it is false for an empty stored credential and for an
\* envelope-shaped credential that decrypts to null.
C13_EnvelopeVerifiesIffEqual ==
  Verified =>
    /\ OnEnvelope => (probe.out <=> probe.guess = probe.plain)
    /\ probe.stored = <<>> => ~probe.out
    /\ (ThreeParts(probe.stored) /\ decryptPassword(probe.stored, passwordKey) = Null)
         => ~probe.out

\* C13, amended: for every envelope made by encryptPassword under the active
\* key from a non-empty plaintext, the plaintext and p being text,
\* verifyPassword(p, envelope) is true exactly when p equals the plaintext;
\* the envelope of the empty plaintext verifies for no p; verifyPassword is
\* false for an empty stored credential and for an envelope-shaped credential
\* that decrypts to null.
C13_NonEmptyEnvelopeVerifiesIffEqual ==
  Verified =>
    /\ (OnEnvelope /\ probe.plain # <<>>
          /\ WellFormed(probe.plain) /\ WellFormed(probe.guess)) =>
         (probe.out <=> probe.guess = probe.plain)
    /\ (OnEnvelope /\ probe.plain = <<>>) => ~probe.out
    /\ probe.stored = <<>> => ~probe.out
    /\ (ThreeParts(probe.stored) /\ decryptPassword(probe.stored, passwordKey) = Null)
         => ~probe.out

C13_Witness ==
  /\ Verified /\ OnEnvelope
  /\ probe.plain = Pw1 /\ probe.guess = Pw1
  /\ probe.out
  /\ passwordKey = JsStr(HexKey64)

\* C14 as stated: for every plaintext p and every valid 32-byte key,
\* decryptPassword(encryptPassword(p)) under the same key is exactly p, for
\* every IV.
C14_RoundTrip ==
  (Decrypted /\ OnEnvelope) => probe.out = JsStr(probe.plain)

\* C14, amended: for every non-empty plaintext p that is text and every valid
\* 32-byte key, decryptPassword(encryptPassword(p)) under the same key is
\* exactly p, for every IV; for the empty plaintext it is null.
C14_RoundTripNonEmpty ==
  (Decrypted /\ OnEnvelope) =>
    /\ (probe.plain # <<>> /\ WellFormed(probe.plain)) => probe.out = JsStr(probe.plain)
    /\ probe.plain = <<>> => probe.out = Null

C14_Witness ==
  /\ Decrypted /\ OnEnvelope
  /\ probe.plain = <<"a", ":", "b", ":", "c">>
  /\ probe.out = JsStr(probe.plain)
  /\ passwordKey = JsStr(Base64Key44)

\* the edits after which the stored text is no envelope that encryptPassword
\* made: not three non-empty fields, a field that is not hex all through, a
\* tag or a ciphertext with another digit
BreakingEdits ==
  { "drop_data", "extra_field", "empty_tag",
    "junk_iv", "junk_tag", "junk_data", "nonhex_tag",
    "flip_tag", "flip_data" }

\* C15: decryptPassword never throws and returns null, never a plaintext, for
\* every payload that is not a well-formed authentic envelope: one that does
\* not split into three non-empty fields, one with a field that is not valid
\* hex (valid hex followed by other characters included), one whose tag or
\* ciphertext differs from what encryptPassword produced.
C15_MalformedIsNull ==
  Decrypted =>
    /\ probe.origin = "legacy" => probe.out = Null
    /\ (probe.origin = "encrypt" /\ probe.edit \in BreakingEdits) => probe.out = Null

(***************************************************************************)
(* Properties of the handlers, continued.                                  *)
(***************************************************************************)
\* the handler of request r caught an error: a failure of the store, the
\* exhausted insert variants, or the missing cipher key
Failed(r) == Done(r) /\ rq[r].thrown # NoError

\* C16: when login or register fails with a persistence or configuration
\* error, the 500 response carries a generic internal-failure message that
\* does not contain the text of the underlying error.
C16_GenericFailureMessage ==
  \A r \in Reqs :
    Failed(r) =>
      /\ Answer(r).status = 500
      /\ \A i \in 1..Len(Answer(r).body.error), j \in 1..Len(rq[r].thrown.message) :
           Answer(r).body.error[i] # rq[r].thrown.message[j]

\* login r found a row whose user or tenant is inactive
LoginDisabledCase(r) == IsLogin(r) /\ FoundRow(r) /\ ~RowActive(r)
\* what a login for a user that does not exist is answered
UnknownUserDenial ==
  [status |-> 401, body |-> [ok |-> FALSE, error |-> <<"Credenciales invalidas.">>]]

\* C17 as stated: a login denied for invalid credentials or for a disabled
\* account (inactive user or tenant) gets, in status and message, the denial
\* of a user that does not exist.
C17_DenialsIndistinguishable ==
  \A r \in Reqs :
    (LoginBadPasswordCase(r) \/ LoginDisabledCase(r)) =>
      responses[r] = <<UnknownUserDenial>>

\* C17, amended: a login denied for invalid credentials gets, in status and
\* message, the denial of a user that does not exist; a login denied for a
\* disabled account gets a 403 whose status and message both differ from it.
C17_OnlyBadPasswordIndistinguishable ==
  \A r \in Reqs :
    /\ (LoginBadPasswordCase(r) \/ LoginNoRowCase(r)) =>
         responses[r] = <<UnknownUserDenial>>
    /\ LoginDisabledCase(r) =>
         /\ Len(responses[r]) = 1
         /\ ~Answer(r).body.ok
         /\ Answer(r).status = 403
         /\ Answer(r).status # UnknownUserDenial.status
         /\ Answer(r).body.error # UnknownUserDenial.body.error

C17_Witness ==
  \E r \in Reqs :
    /\ LoginDisabledCase(r) /\ ~RowVerifies(r)
    /\ Answer(r).status = 403

(***************************************************************************)
(* Properties of the pure functions, continued.                            *)
(***************************************************************************)
\* the words of the model that read, whatever their case, as one of the
\* accepted vocabulary, and the empty word
ActiveWords ==
  { <<>>,
    <<"a","c","t","i","v","o">>, <<"A","C","T","I","V","O">>,
    <<"A","c","t","i","v","e">>,
    <<"e","n","a","b","l","e","d">>, <<"E","n","a","b","l","e","d">> }

\* C18: isActiveStatus(raw) is true exactly when raw, trimmed and lower-cased,
\* is the empty string or one of "activo", "active", "enabled", a value that
\* is no string counting as empty; it is false for every other value.
C18_ActiveVocabulary ==
  Classified =>
    (probe.out <=> (probe.value.type # "string" \/ probe.word \in ActiveWords))

C18_Witness ==
  /\ Classified
  /\ probe.word = <<"A","C","T","I","V","O">>
  /\ probe.value = JsStr(<<"\t", "\n">> \o probe.word \o <<" ">>)
  /\ probe.out

(***************************************************************************)
(* Properties of the handlers, continued.                                  *)
(***************************************************************************)
\* register r has a valid body, its tenant is there and active, no row has
\* its (tenant, email), and both lookups returned
PassedChecks(r) ==
  /\ IsRegister(r) /\ ~RegisterBodyBad(r)
  /\ TenantRowsOf(r) # {}
  /\ \A t \in TenantRowsOf(r) : isActiveStatus(t.status)
  /\ ExistingRowsOf(r) = {}
  /\ rq[r].queries = 2
  /\ rq[r].thrown \notin StorageFaults

\* C19: with no valid cipher key configured, a register that passes the
\* validation, the tenant check and the duplicate check fails with a 500 at
\* the encryption, before any INSERT is attempted; a login against a row whose
\* stored credential is an envelope is denied with 401, not failed with a 500.
C19_NoKey ==
  getAesKey(passwordKey) = NoKey =>
    \A r \in Reqs :
      /\ pc[r] # "reg_insert"
      /\ PassedChecks(r) =>
           /\ rq[r].encryptCalls = 1
           /\ rq[r].thrown = ErrPasswordKey
           /\ rq[r].inserts = <<>>
           /\ Answer(r).status = 500 /\ ~Answer(r).body.ok
      /\ (IsLogin(r) /\ FoundRow(r) /\ RowActive(r)
            /\ ThreeParts(StoredCredential(rq[r].user))) =>
           /\ rq[r].thrown = NoError
           /\ responses[r] = <<[status |-> 401,
                                body |-> [ok |-> FALSE, error |-> MsgInvalid]]>>

C19_Witness ==
  \E r \in Reqs :
    /\ getAesKey(passwordKey) = NoKey
    /\ IsLogin(r) /\ FoundRow(r) /\ RowActive(r)
    /\ ThreeParts(StoredCredential(rq[r].user))
    /\ rq[r].verifyCalls = 1
    /\ Answer(r).status = 401

\* the statuses a login and a register end with
LoginOutcomes == {200, 400, 401, 403, 500}
RegisterOutcomes == {200, 400, 403, 404, 409, 500}
\* request r has reached its handler and has not returned
InFlight(r) == pc[r] \notin {"idle", "done", "retired"}
\* request r has sent at most one response, none before it returns, and the
\* one it has sent is one of the outcomes of its handler
OneOutcome(r) ==
  /\ Len(responses[r]) <= 1
  /\ InFlight(r) => responses[r] = <<>>
  /\ Done(r) =>
       /\ Len(responses[r]) = 1
       /\ rq[r].kind = "login" => Answer(r).status \in LoginOutcomes
       /\ rq[r].kind = "register" => Answer(r).status \in RegisterOutcomes
       /\ Answer(r).body.ok <=> Answer(r).status = 200

\* C20: each login or register sends exactly one response: once a response is
\* sent no later step of the handler sends another, and every request that
\* reaches the handler ends in exactly one of its terminal outcomes (login
\* 200/400/401/403/500, register 200/400/403/404/409/500), provided every
\* storage call returns or fails.
C20_ExactlyOneResponse ==
  /\ [](\A r \in Reqs : OneOutcome(r))
  /\ \A r \in Reqs : InFlight(r) ~> Done(r)

C20_Witness ==
  \E r \in Reqs :
    /\ IsLogin(r) /\ rq[r].touch = "failed" /\ rq[r].queries = 2
    /\ Len(responses[r]) = 1 /\ Answer(r).status = 200

\* the call of getAesKey has returned
Resolved == probe.fn = "key" /\ probe.step = "resolved"
\* the three forms of a secret
IsHex64(s) == Len(s) = 64 /\ \A i \in 1..64 : s[i] \in {HexDigits[k] : k \in 1..16} \cup {HexUpper[k] : k \in 1..16}
IsBase64Text(s) == \A i \in 1..Len(s) : s[i] = "=" \/ s[i] \in {Base64Chars[k] : k \in 1..64}
IsBase64Key(s) == IsBase64Text(s) /\ Len(Base64Decode(s)) = 32
IsRawKey(s) == Len(Utf8Bytes(s)) = 32

\* C21: the key is resolved from the secret in this precedence: 64 hex
\* characters are hex-decoded; otherwise a secret of base64 characters is used
\* if it decodes to exactly 32 bytes; otherwise the raw UTF-8 bytes are used if
\* they are exactly 32; in every other case, and with no secret, there is no
\* key.  A key that is returned has exactly 32 bytes.
C21_KeyPrecedence ==
  Resolved =>
    LET s == passwordKey.str
        key == probe.out
    IN  /\ key # NoKey => Len(key) = 32 /\ \A i \in 1..32 : key[i] \in 0..255
        /\ IF passwordKey.type # "string" \/ s = <<>> THEN key = NoKey
           ELSE IF IsHex64(s) THEN key = HexDecode(s)
           ELSE IF IsBase64Key(s) THEN key = Base64Decode(s)
           ELSE IF IsRawKey(s) THEN key = Utf8Bytes(s)
           ELSE key = NoKey

\* a secret of 43 base64 characters and a pad gave the 32 bytes it decodes to
C21_Witness ==
  /\ Resolved
  /\ passwordKey = JsStr(Base64Key44)
  /\ Len(probe.out) = 32
  /\ probe.out = Base64Decode(Base64Key44)
  /\ probe.out # Utf8Bytes(Base64Key44)

\* no request is in its handler
NoneInFlight == \A r \in Reqs : pc[r] \in {"idle", "done", "retired"}

\* C22: in every endpoint that takes a connection from the pool (login,
\* register, the query helper and both health checks) the connection is
\* released on every path, a failing query included: whenever no request is
\* in flight no connection is checked out, so that failed requests cannot
\* exhaust the pool.
C22_PoolReturnsToZero == NoneInFlight => checkedOut = 0

\* register r has returned ok:true
RegisteredOk(r) == IsRegister(r) /\ Answer(r).status = 200 /\ Answer(r).body.ok
\* the rows a register has inserted
RegisteredRows == {u \in users : u.id > Cardinality(InitialUsers)}
\* the tenant of row u is in the tenants table and is active
TenantActive(u) ==
  \E t \in tenants : t.id = u.tenant_id /\ isActiveStatus(t.status)
\* the rows a register had inserted, and answered for, when login r arrived
\* and that login r names: its tenant, its email in any letter case and with
\* surrounding white space, and its password
RegisteredFor(r) ==
  {u \in RegisteredRows :
     /\ u.id <= rq[r].rowsBefore
     /\ u.tenant_id = Trim(rq[r].body.tenant.str)
     /\ u.email = ToLowerCase(Trim(rq[r].body.email.str))
     /\ verifyPassword(Trim(rq[r].body.password.str), u.password_hash.str, passwordKey)
     /\ TenantActive(u)}
\* login r was not refused a connection and did not lose it
Connected(r) == rq[r].thrown \notin StorageFaults \cup {ErrPoolClosed}

\* C23: after register(tenant, email, password) returns ok:true, a later
\* login with the same tenant, email (in any letter case, with surrounding
\* white space) and password returns ok:true, the key being unchanged and
\* the tenant active: the inserted row has status "activo", its email is
\* stored in lower case, and its envelope verifies against the trimmed password.
C23_RegisteredCanLogin ==
  \A r \in Reqs :
    /\ RegisteredOk(r) =>
         \E u \in RegisteredRows :
           /\ u.tenant_id = Trim(rq[r].body.tenant.str)
           /\ u.email = ToLowerCase(Trim(rq[r].body.email.str))
           /\ u.status = JsStr(StrActivo)
           /\ verifyPassword(Trim(rq[r].body.password.str), u.password_hash.str,
                             passwordKey)
    /\ IsLogin(r) /\ rq[r].body.tenant.type = "string"
         /\ rq[r].body.email.type = "string" /\ rq[r].body.password.type = "string"
         /\ Connected(r) /\ RegisteredFor(r) # {} =>
         Answer(r).status = 200 /\ Answer(r).body.ok

\* login r has been answered ok:true
LoginOk(r) == IsLogin(r) /\ Answer(r).status = 200
\* the rows of the tenant and email login r asks for that its password verifies
\* against, and the rows of other tenants with that email and password
OwnRows(r) ==
  {u \in users : /\ u.tenant_id = Trim(rq[r].body.tenant.str)
                 /\ u.email = ToLowerCase(Trim(rq[r].body.email.str))
                 /\ verifyPassword(Trim(rq[r].body.password.str),
                                   StoredCredential(u), passwordKey)}
TwinRows(r) ==
  {u \in users : /\ u.tenant_id # Trim(rq[r].body.tenant.str)
                 /\ u.email = ToLowerCase(Trim(rq[r].body.email.str))
                 /\ verifyPassword(Trim(rq[r].body.password.str),
                                   StoredCredential(u), passwordKey)}

\* C24: tenant isolation.  A login for (tenant T, email E) is authorized only
\* by a row whose tenant_id is T: a user with the same email and password in
\* another tenant never makes the login succeed, and the tenant id in a
\* success response is the requested tenant.
C24_TenantIsolation ==
  \A r \in Reqs :
    LoginOk(r) =>
      /\ \E u \in OwnRows(r) : u.id = rq[r].user.id
      /\ rq[r].user.tenant_id = Trim(rq[r].body.tenant.str)
      /\ Answer(r).body.user.tenant_id = Trim(rq[r].body.tenant.str)
      /\ Answer(r).body.user.id = rq[r].user.id

\* a login into t2 succeeded on the row of t2 while another tenant holds a
\* row with the same email and password
C24_Witness ==
  \E r \in Reqs :
    /\ LoginOk(r)
    /\ Trim(rq[r].body.tenant.str) = T2
    /\ TwinRows(r) # {}
    /\ Answer(r).body.user.tenant_id = T2

\* the rows that held the pair of register r when it arrived
HeldBefore(r) == {u \in ExistingRowsOf(r) : u.id <= rq[r].rowsBefore}
\* register r got as far as its duplicate check, which the store answered
DuplicateChecked(r) ==
  IsRegister(r) /\ rq[r].queries >= 2 /\ rq[r].thrown = NoError

\* C25: when register requests do not overlap, the users table never holds
\* two rows with the same (tenant, lowercased email), with no uniqueness
\* constraint in the store: a second register for an existing pair inserts
\* nothing and is answered 409.
C25_NoDuplicatePair ==
  /\ \A u, v \in users :
       u.tenant_id = v.tenant_id /\ ToLowerCase(u.email) = ToLowerCase(v.email)
         => u = v
  /\ \A r \in Reqs :
       IsRegister(r) /\ HeldBefore(r) # {} =>
         /\ Answer(r).status # 200
         /\ rq[r].inserts = <<>>
         /\ DuplicateChecked(r) => Answer(r) = ErrorResponse(409, MsgRegistered)

\* a register for a pair that an earlier register inserted was answered 409,
\* on a table without a unique key
C25_Witness ==
  \E r \in Reqs :
    /\ ~uniqueEmail
    /\ DuplicateChecked(r)
    /\ \E u \in HeldBefore(r) : u.id > Cardinality(InitialUsers)
    /\ Answer(r).status = 409
    /\ Cardinality(users) = Cardinality(InitialUsers) + 1

\* request r takes a step of its handler
Acts(r) == pc'[r] # pc[r] /\ pc'[r] # "retired"
\* the step sends the ok:true of request r
AnswersOk(r) == pc'[r] = "done" /\ responses'[r][1].status = 200
\* the rows without their last-login timestamps
Unstamped(rows) == {[u EXCEPT !.last_login_at = 0] : u \in rows}

\* C26: frame.  A register that ends in a response other than success (400,
\* 403, 404, 409, 500) leaves the user rows as they were; a login inserts and
\* deletes no row and changes nothing but the last-login timestamp of the
\* authenticated user, which is written only when the login is authorized.
C26_Frame ==
  [][\A r \in Reqs :
       Acts(r) =>
         /\ tenants' = tenants
         /\ rq'[r].kind = "register" /\ ~AnswersOk(r) => users' = users
         /\ rq'[r].kind = "login" =>
              /\ Unstamped(users') = Unstamped(users)
              /\ Cardinality(users') = Cardinality(users)
              /\ \A u \in users' \ users : u.id = rq[r].user.id
              /\ users' # users =>
                   /\ FoundRow(r) /\ RowActive(r) /\ RowVerifies(r)
                   /\ AnswersOk(r)]_vars

\* a login has stamped its user's row and a register that tried an INSERT
\* was answered 500: the rows are the initial ones but for the one timestamp
C26_Witness ==
  \E r \in Reqs :
    /\ IsRegister(r) /\ Answer(r).status = 500 /\ rq[r].inserts # <<>>
    /\ Unstamped(users) = InitialUsers
    /\ Cardinality({u \in users : u.last_login_at = 1}) = 1

====
